---- MODULE Spec2Model ----
(***************************************************************************)
(* Control-plane state service of SelfHostGameAccel (server/protocol):     *)
(* users, session and device tokens, rooms, and the JSON state file that   *)
(* saveState writes through a temporary file and a rename.                 *)
(*                                                                         *)
(* Strings are sequences of symbols (a symbol is a run of characters), so  *)
(* strings.TrimSpace and strings.Contains are computed, not assumed.       *)
(* newToken and randomSalt draw from crypto/rand: a token is a fresh value *)
(* (the n-th draw), a salt is any member of Salts.                         *)
(*                                                                         *)
(* The server source has no admin flag and no /admin/role handler; the     *)
(* test file and the API client use them. The admin variable and the       *)
(* definitions marked "spec:" below follow spec.md sections 4.1 and 4.4.   *)
(***************************************************************************)
EXTENDS Integers, Sequences, FiniteSets, TLC

VARIABLES
    running,      \* the server process is up (NewServerWithStorage has returned a server)
    persistPath,  \* Server.persistPath: "" or the path of the state file
    users,        \* Server.users: username -> userRecord
    admin,        \* spec: the admin flag of each user
    sessions,     \* Server.sessions: session token -> username
    deviceBags,   \* Server.deviceBags: device id or device token -> username
    rooms,        \* Server.rooms: room id -> roomRecord
    mu,           \* Server.mu: "locked" or "unlocked"
    saving,       \* the handler inside saveState (it holds the lock), or Idle
    offer,        \* the bootstrapTunnel handler between its Unlock and its answer, or NoOffer
    disk,         \* the file at persistPath
    tmp,          \* the file at persistPath + ".tmp"
    saved,        \* the persistentState the last saveState that returned nil was given
    nextToken,    \* number of the next crypto/rand draw used by newToken
    restarts,     \* process crashes so far
    faults,       \* storage errors so far
    leases,       \* <<room id, device id>> -> the virtual IP its latest joinRoom was given
    last          \* the response written by the latest step, or Quiet

vars == <<running, persistPath, users, admin, sessions, deviceBags, rooms, mu, saving,
          offer, disk, tmp, saved, nextToken, restarts, faults, leases, last>>

memory == <<users, admin, sessions, deviceBags, rooms>>
handlers == <<mu, saving, offer>>
files == <<disk, tmp, saved>>
environment == <<running, persistPath, restarts, faults, leases>>

----------------------------------------------------------------------------
(* Bounds of the model *)

MaxTokens == 4      \* draws of newToken in one behaviour
MaxRooms == 2       \* rooms created
MaxRestarts == 1    \* process crashes
MaxWork == 5        \* token draws and rooms created, taken together
MaxFaults == 1      \* storage errors

\* The exploration stops where one more draw or one more room would leave the bounds.
CanDraw(n) ==
    /\ nextToken + n - 1 <= MaxTokens
    /\ nextToken + n - 1 + Cardinality(DOMAIN rooms) <= MaxWork

CanCreate ==
    /\ Cardinality(DOMAIN rooms) < MaxRooms
    /\ nextToken + Cardinality(DOMAIN rooms) <= MaxWork

----------------------------------------------------------------------------
(* Program constants *)

StatusOK == 200
StatusBadRequest == 400
StatusUnauthorized == 401
StatusForbidden == 403
StatusNotFound == 404
StatusConflict == 409
StatusInternalServerError == 500

TransportUDP == "udp"
TransportTCP == "tcp"
CipherSuiteAES256GCM == "aes-256-gcm"
CipherSuiteChaCha20Poly1305 == "chacha20-poly1305"

DefaultMTU == 1400
DefaultKeepaliveInterval == 15
RecommendedDelay == 5000

EmptyString == << >>
Gamer == <<"gamer">>
Password123 == <<"password123">>
DemoDevice == <<"demo-device">>
StatePath == "state.json"

----------------------------------------------------------------------------
(* Inputs the requests are drawn from *)

HexToken2 == <<"1b", "...">>
Nova == <<"nova">>
Warp123 == <<"warp123">>
RigDevice == <<"rig-device">>

UsernameInputs == {Gamer, Nova, EmptyString, <<"no", " ", "va">>}
PasswordInputs == {Password123, Warp123}
\* a device id is any string the client picks: none, one of its own, or a string
\* that is also a token
DeviceIDInputs == {EmptyString, RigDevice, HexToken2}
Salts == {<<"c2FsdA==">>}
\* the salts startup is checked with: a second start draws a salt of its own
SeedSalts == Salts \cup {<<"cGVwcGVy">>}
RoomNames == {<<"alpha">>}
CreateRoomInputs ==
    {[Name |-> n, PreferredTransport |-> tm[1], MTU |-> tm[2]] :
        n \in RoomNames, tm \in {<<"", 0>>, <<TransportTCP, 1350>>}}
OfferInputs ==
    {[Transport |-> "", CipherSuite |-> "", EphemeralKey |-> "client-ephemeral"],
     [Transport |-> TransportTCP, CipherSuite |-> CipherSuiteChaCha20Poly1305,
      EphemeralKey |-> "client-ephemeral"]}
SequenceInputs == {0, 7}

----------------------------------------------------------------------------
(* Strings and random values *)

Whitespace == {" ", "\t", "\n", "\r"}

RECURSIVE TrimLeft(_)
TrimLeft(s) ==
    IF s # << >> /\ Head(s) \in Whitespace THEN TrimLeft(Tail(s)) ELSE s

RECURSIVE TrimRight(_)
TrimRight(s) ==
    IF s # << >> /\ s[Len(s)] \in Whitespace
    THEN TrimRight(SubSeq(s, 1, Len(s) - 1)) ELSE s

TrimSpace(s) == TrimRight(TrimLeft(s))

Contains(s, sym) == \E i \in 1..Len(s) : s[i] = sym

HexSymbols == <<"0a", "1b", "2c", "3d", "4e", "5f", "6a", "7b", "8c", "9d", "ae", "bf">>

\* hex.EncodeToString of the n-th 16-byte draw: its first six characters, then the rest
newToken(n) == <<HexSymbols[n], "...">>

\* fmt.Sprintf("device-%s", newToken()[:6])
generatedDeviceID(n) == <<"device-">> \o SubSeq(newToken(n), 1, 1)

hashPassword(password, salt) == salt \o <<":">> \o password

----------------------------------------------------------------------------
(* Maps *)

EmptyMap == [k \in {} |-> TRUE]

Put(m, k, v) == [x \in DOMAIN m \cup {k} |-> IF x = k THEN v ELSE m[x]]

----------------------------------------------------------------------------
(* The state file: encoding/json of persistentState, and the two paths *)

NoFile == [kind |-> "absent"]
PartialFile == [kind |-> "partial"]   \* a truncated or half-written document
NoState == [kind |-> "none"]          \* no saveState has returned nil yet

\* a JSON object: its members as key/value pairs
encodeMap(m) == {<<k, m[k]>> : k \in DOMAIN m}

decodeMap(obj) ==
    [k \in {kv[1] : kv \in obj} |-> (CHOOSE kv \in obj : kv[1] = k)[2]]

\* roomRecord has no json tags: every exported field is written under its own name
encodeRoom(r) ==
    [ID |-> r.ID, Name |-> r.Name, PreferredTransport |-> r.PreferredTransport,
     MTU |-> r.MTU, OverlaySubnet |-> r.OverlaySubnet,
     KeepaliveInterval |-> r.KeepaliveInterval, Members |-> encodeMap(r.Members)]

\* a room decoder that loses the member set
decodeRoomNoMembers(j) ==
    [ID |-> j.ID, Name |-> j.Name, PreferredTransport |-> j.PreferredTransport,
     MTU |-> j.MTU, OverlaySubnet |-> j.OverlaySubnet,
     KeepaliveInterval |-> j.KeepaliveInterval, Members |-> EmptyMap]

decodeRoom(j) ==
    [ID |-> j.ID, Name |-> j.Name, PreferredTransport |-> j.PreferredTransport,
     MTU |-> j.MTU, OverlaySubnet |-> j.OverlaySubnet,
     KeepaliveInterval |-> j.KeepaliveInterval, Members |-> decodeMap(j.Members)]

\* json.MarshalIndent(persistentState{Users, DeviceBags, Rooms})
encodeState(state) ==
    [users |-> encodeMap(state.Users),
     device_bags |-> encodeMap(state.DeviceBags),
     rooms |-> encodeMap([id \in DOMAIN state.Rooms |-> encodeRoom(state.Rooms[id])])]

\* spec: the admin flag is part of the persisted user record
encodeAdmin(flags) == encodeMap(flags)
decodeAdmin(obj) == decodeMap(obj)

\* json.Unmarshal into a persistentState whose three maps start empty: a collection
\* the document lacks stays empty
decodeState(doc) ==
    [Users |-> IF "users" \in DOMAIN doc THEN decodeMap(doc.users) ELSE EmptyMap,
     DeviceBags |-> IF "device_bags" \in DOMAIN doc THEN decodeMap(doc.device_bags)
                    ELSE EmptyMap,
     Rooms |-> IF "rooms" \in DOMAIN doc
               THEN LET r == decodeMap(doc.rooms) IN [id \in DOMAIN r |-> decodeRoom(r[id])]
               ELSE EmptyMap]

\* loadState that takes a malformed file for an empty one
loadStateLenient(file) ==
    IF file.kind = "json"
    THEN [err |-> FALSE, state |-> decodeState(file.doc)]
    ELSE [err |-> FALSE, state |-> [Users |-> EmptyMap, DeviceBags |-> EmptyMap, Rooms |-> EmptyMap]]

\* loadState(path): [err, state]
loadState(file) ==
    IF file.kind = "absent"
    THEN [err |-> FALSE, state |-> [Users |-> EmptyMap, DeviceBags |-> EmptyMap, Rooms |-> EmptyMap]]
    ELSE IF file.kind = "partial"
    THEN [err |-> TRUE, state |-> [Users |-> EmptyMap, DeviceBags |-> EmptyMap, Rooms |-> EmptyMap]]
    ELSE [err |-> FALSE, state |-> decodeState(file.doc)]

\* spec: the admin flags load reads with the users
loadAdmin(file) ==
    IF file.kind = "json" THEN decodeAdmin(file.admins) ELSE EmptyMap

\* a snapshot that leaves the rooms out
SnapshotWithoutRooms ==
    [kind |-> "json",
     doc |-> encodeState([Users |-> users, DeviceBags |-> deviceBags, Rooms |-> EmptyMap]),
     admins |-> encodeAdmin(admin)]

\* the bytes saveState writes for the current memory (persistLocked builds the
\* persistentState from the live maps while the lock is held)
Snapshot ==
    [kind |-> "json",
     doc |-> encodeState([Users |-> users, DeviceBags |-> deviceBags, Rooms |-> rooms]),
     admins |-> encodeAdmin(admin)]

----------------------------------------------------------------------------
(* Responses *)

Quiet == [op |-> "none"]
Idle == [pc |-> "idle"]
NoOffer == [pc |-> "idle"]

Response(op, status, body) == [op |-> op, status |-> status, body |-> body]

ErrorBody(msg) == [error |-> msg]

\* the handler answers in this step; a lock it took is released by the deferred Unlock
Finish(resp) ==
    /\ last' = resp
    /\ UNCHANGED handlers

\* persistLocked that answers without saving
persistLockedNoSave(resp) == Finish(resp)

\* persistLocked, then writeJSON or writeError: without a path the answer is sent at
\* once; with a path the handler goes on, lock held, into saveState
persistLocked(resp) ==
    IF persistPath = ""
    THEN Finish(resp)
    ELSE /\ mu' = "locked"
         /\ saving' = [pc |-> "write", resp |-> resp]
         /\ offer' = offer
         /\ last' = Quiet

----------------------------------------------------------------------------
(* Startup and crash *)

\* a seed that binds the demo device to a name no user has
seedDemoUserUnbound(s, salt) ==
    [s EXCEPT
        !.users = Put(s.users, Gamer,
                      [Username |-> Gamer, Salt |-> salt,
                       Hash |-> hashPassword(Password123, salt), Device |-> DemoDevice]),
        !.deviceBags = Put(s.deviceBags, DemoDevice, <<"demo">>)]

\* seedDemoUser, on the maps of a server under construction
seedDemoUser(s, salt) ==
    [s EXCEPT
        !.users = Put(s.users, Gamer,
                      [Username |-> Gamer, Salt |-> salt,
                       Hash |-> hashPassword(Password123, salt), Device |-> DemoDevice]),
        !.deviceBags = Put(s.deviceBags, DemoDevice, Gamer)]

\* a startup that reads the temporary file when there is one
loadFromDiskTemp(s, salt) ==
    LET loaded == loadState(IF tmp # NoFile THEN tmp ELSE disk) IN
    IF loaded.err THEN [err |-> TRUE, s |-> s]
    ELSE IF Cardinality(DOMAIN loaded.state.Users) = 0
    THEN [err |-> FALSE, s |-> seedDemoUser(s, salt)]
    ELSE [err |-> FALSE,
          s |-> [users |-> loaded.state.Users,
                 deviceBags |-> loaded.state.DeviceBags,
                 rooms |-> loaded.state.Rooms]]

\* a startup that seeds the demo user on top of the users it loaded
loadFromDiskSeedOnTop(s, salt) ==
    LET loaded == loadState(disk) IN
    IF loaded.err THEN [err |-> TRUE, s |-> s]
    ELSE IF Cardinality(DOMAIN loaded.state.Users) = 0
    THEN [err |-> FALSE, s |-> seedDemoUser(s, salt)]
    ELSE [err |-> FALSE,
          s |-> seedDemoUser([users |-> loaded.state.Users,
                              deviceBags |-> loaded.state.DeviceBags,
                              rooms |-> loaded.state.Rooms], salt)]

\* a startup that reads the file and then keeps only a freshly seeded demo user
loadFromDiskDemoOnly(s, salt) ==
    LET loaded == loadState(disk) IN
    IF loaded.err THEN [err |-> TRUE, s |-> s]
    ELSE [err |-> FALSE,
          s |-> seedDemoUser([users |-> EmptyMap,
                              deviceBags |-> loaded.state.DeviceBags,
                              rooms |-> loaded.state.Rooms], salt)]

\* a startup that seeds no demo user when it loaded none
loadFromDiskNoSeed(s, salt) ==
    LET loaded == loadState(disk) IN
    IF loaded.err THEN [err |-> TRUE, s |-> s]
    ELSE [err |-> FALSE,
          s |-> [users |-> loaded.state.Users,
                 deviceBags |-> loaded.state.DeviceBags,
                 rooms |-> loaded.state.Rooms]]

\* loadFromDisk: [err, s]
loadFromDisk(s, salt) ==
    LET loaded == loadState(disk) IN
    IF loaded.err THEN [err |-> TRUE, s |-> s]
    ELSE IF Cardinality(DOMAIN loaded.state.Users) = 0
    THEN [err |-> FALSE, s |-> seedDemoUser(s, salt)]
    ELSE [err |-> FALSE,
          s |-> [users |-> loaded.state.Users,
                 deviceBags |-> loaded.state.DeviceBags,
                 rooms |-> loaded.state.Rooms]]

\* spec: the admin flags after startup: those of the loaded users, or the seeded
\* demo user as the administrator (the one the role tests log in as)
adminAtStartup ==
    IF persistPath # "" /\ ~loadState(disk).err
       /\ Cardinality(DOMAIN loadState(disk).state.Users) # 0
    THEN loadAdmin(disk)
    ELSE Put(EmptyMap, Gamer, TRUE)

\* spec 4.1: admin iff the store is empty when the user is registered
adminAtRegistration == Cardinality(DOMAIN users) = 0

\* NewServerWithStorage when randomSalt returns salt
NewServerWithSalt(salt) ==
    /\ ~running
    /\ LET fresh == [users |-> EmptyMap, deviceBags |-> EmptyMap, rooms |-> EmptyMap]
           built == IF persistPath # "" THEN loadFromDisk(fresh, salt)
                    ELSE [err |-> FALSE, s |-> seedDemoUser(fresh, salt)]
       IN IF built.err
          THEN /\ last' = Response("start", StatusInternalServerError,
                                   ErrorBody("decode state"))
               /\ UNCHANGED <<running, memory>>
          ELSE /\ running' = TRUE
               /\ users' = built.s.users
               /\ deviceBags' = built.s.deviceBags
               /\ rooms' = built.s.rooms
               /\ admin' = adminAtStartup
               /\ sessions' = EmptyMap
               /\ last' = Response("start", StatusOK, [ok |-> TRUE])
    /\ UNCHANGED <<persistPath, handlers, files, nextToken, restarts, faults, leases>>

NewServerWithStorage == \E salt \in Salts : NewServerWithSalt(salt)

\* the process dies: memory, lock and handlers are gone, the files stay. A WriteFile
\* under way leaves the temporary file as it was, or truncated or half written.
Crash ==
    /\ running
    /\ restarts < MaxRestarts
    /\ restarts' = restarts + 1
    /\ running' = FALSE
    /\ users' = EmptyMap /\ admin' = EmptyMap /\ sessions' = EmptyMap
    /\ deviceBags' = EmptyMap /\ rooms' = EmptyMap
    /\ mu' = "unlocked"
    /\ saving' = Idle
    /\ offer' = NoOffer
    /\ IF saving.pc = "write" THEN tmp' \in {tmp, PartialFile} ELSE tmp' = tmp
    /\ last' = Quiet
    /\ UNCHANGED <<persistPath, disk, saved, nextToken, faults, leases>>

----------------------------------------------------------------------------
(* Request handlers. A handler that takes the lock runs to its persistLocked call *)
(* in one step: nothing else can touch the maps while it holds the lock.          *)

RegisterRequests ==
    [Username : UsernameInputs, Password : {Warp123, EmptyString}, DeviceID : DeviceIDInputs]

\* a lookup that never finds the user
userExistsNever(username) == FALSE

userExists(username) == username \in DOMAIN users

\* The draw for a generated device id comes before the checks that may refuse the
\* request; a draw that is thrown away is not counted.
handleRegister(req) ==
    /\ running
    /\ IF TrimSpace(req.Username) = EmptyString \/ TrimSpace(req.Password) = EmptyString
       THEN /\ Finish(Response("register", StatusBadRequest,
                               ErrorBody("username and password required")))
            /\ UNCHANGED <<memory, nextToken>>
       ELSE IF Contains(req.Username, " ")
       THEN /\ Finish(Response("register", StatusBadRequest,
                               ErrorBody("username may not contain spaces")))
            /\ UNCHANGED <<memory, nextToken>>
       ELSE /\ mu = "unlocked"
            /\ IF userExists(req.Username)
               THEN /\ Finish(Response("register", StatusConflict,
                                       ErrorBody("user already exists")))
                    /\ UNCHANGED <<memory, nextToken>>
               ELSE \E salt \in Salts :
                    LET generated == req.DeviceID = EmptyString
                        deviceID == IF generated THEN generatedDeviceID(nextToken)
                                    ELSE req.DeviceID
                        k == IF generated THEN nextToken + 1 ELSE nextToken
                        sessionToken == newToken(k)
                        deviceToken == newToken(k + 1)
                        record == [Username |-> req.Username, Salt |-> salt,
                                   Hash |-> hashPassword(req.Password, salt),
                                   Device |-> deviceID]
                    IN /\ CanDraw(k + 2 - nextToken)
                       /\ users' = Put(users, req.Username, record)
                       /\ admin' = Put(admin, req.Username, adminAtRegistration)
                       /\ deviceBags' = Put(Put(deviceBags, deviceID, req.Username),
                                            deviceToken, req.Username)
                       /\ sessions' = Put(sessions, sessionToken, req.Username)
                       /\ nextToken' = k + 2
                       /\ UNCHANGED rooms
                       /\ persistLocked(Response("register", StatusOK,
                                [SessionToken |-> sessionToken, DeviceToken |-> deviceToken]))
    /\ UNCHANGED <<environment, files>>

LoginRequests == [Username : {Gamer, Nova}, Password : PasswordInputs]

\* a credential check that looks at the username alone
credentialsOKAnyPassword(req) == req.Username \in DOMAIN users

credentialsOK(req) ==
    /\ req.Username \in DOMAIN users
    /\ users[req.Username].Hash = hashPassword(req.Password, users[req.Username].Salt)

\* a login that opens the session before it checks the password
handleLoginSessionFirst(req) ==
    /\ running
    /\ mu = "unlocked"
    /\ CanDraw(2)
    /\ sessions' = Put(sessions, newToken(nextToken), req.Username)
    /\ nextToken' = nextToken + 2
    /\ IF ~credentialsOK(req)
       THEN /\ Finish(Response("login", StatusUnauthorized,
                               ErrorBody("invalid credentials")))
            /\ UNCHANGED <<users, admin, deviceBags, rooms>>
       ELSE /\ deviceBags' = Put(deviceBags, newToken(nextToken + 1), req.Username)
            /\ UNCHANGED <<users, admin, rooms>>
            /\ persistLocked(Response("login", StatusOK,
                     [SessionToken |-> newToken(nextToken),
                      DeviceToken |-> newToken(nextToken + 1)]))
    /\ UNCHANGED <<environment, files>>

handleLogin(req) ==
    /\ running
    /\ mu = "unlocked"
    /\ IF ~credentialsOK(req)
       THEN /\ Finish(Response("login", StatusUnauthorized,
                               ErrorBody("invalid credentials")))
            /\ UNCHANGED <<memory, nextToken>>
       ELSE LET sessionToken == newToken(nextToken)
                deviceToken == newToken(nextToken + 1)
            IN /\ CanDraw(2)
               /\ sessions' = Put(sessions, sessionToken, req.Username)
               /\ deviceBags' = Put(deviceBags, deviceToken, req.Username)
               /\ nextToken' = nextToken + 2
               /\ UNCHANGED <<users, admin, rooms>>
               /\ persistLocked(Response("login", StatusOK,
                        [SessionToken |-> sessionToken, DeviceToken |-> deviceToken]))
    /\ UNCHANGED <<environment, files>>

\* any string a client may send where a token is expected
TokenInputs == {newToken(n) : n \in 1..MaxTokens} \cup {EmptyString}

RefreshRequests == [DeviceToken : TokenInputs \cup {DemoDevice, RigDevice}]

\* a refresh that ends the user's other sessions
handleRefreshRotating(req) ==
    /\ running
    /\ mu = "unlocked"
    /\ IF req.DeviceToken \notin DOMAIN deviceBags
       THEN /\ Finish(Response("refresh", StatusUnauthorized,
                               ErrorBody("device token invalid")))
            /\ UNCHANGED <<memory, nextToken>>
       ELSE LET username == deviceBags[req.DeviceToken]
                sessionToken == newToken(nextToken)
                others == {t \in DOMAIN sessions : sessions[t] # username}
            IN /\ CanDraw(1)
               /\ sessions' = Put([t \in others |-> sessions[t]], sessionToken, username)
               /\ nextToken' = nextToken + 1
               /\ UNCHANGED <<users, admin, deviceBags, rooms>>
               /\ Finish(Response("refresh", StatusOK, [SessionToken |-> sessionToken]))
    /\ UNCHANGED <<environment, files>>

\* a refresh that saves the state before it answers
handleRefreshSaving(req) ==
    /\ running
    /\ mu = "unlocked"
    /\ IF req.DeviceToken \notin DOMAIN deviceBags
       THEN /\ Finish(Response("refresh", StatusUnauthorized,
                               ErrorBody("device token invalid")))
            /\ UNCHANGED <<memory, nextToken>>
       ELSE LET username == deviceBags[req.DeviceToken]
                sessionToken == newToken(nextToken)
            IN /\ CanDraw(1)
               /\ sessions' = Put(sessions, sessionToken, username)
               /\ nextToken' = nextToken + 1
               /\ UNCHANGED <<users, admin, deviceBags, rooms>>
               /\ persistLocked(Response("refresh", StatusOK, [SessionToken |-> sessionToken]))
    /\ UNCHANGED <<environment, files>>

handleRefresh(req) ==
    /\ running
    /\ mu = "unlocked"
    /\ IF req.DeviceToken \notin DOMAIN deviceBags
       THEN /\ Finish(Response("refresh", StatusUnauthorized,
                               ErrorBody("device token invalid")))
            /\ UNCHANGED <<memory, nextToken>>
       ELSE LET username == deviceBags[req.DeviceToken]
                sessionToken == newToken(nextToken)
            IN /\ CanDraw(1)
               /\ sessions' = Put(sessions, sessionToken, username)
               /\ nextToken' = nextToken + 1
               /\ UNCHANGED <<users, admin, deviceBags, rooms>>
               /\ Finish(Response("refresh", StatusOK, [SessionToken |-> sessionToken]))
    /\ UNCHANGED <<environment, files>>

\* a room ID numbered by the count of rooms, not the count plus one
roomIDOfCount(n) == <<"room-", n - 1>>

\* fmt.Sprintf("room-%d", n) and fmt.Sprintf("10.0.%d.0/24", n)
roomIDOf(n) == <<"room-", n>>
\* one subnet for every room
subnetOfFirst(n) == <<10, 0, 1, 0, 24>>

subnetOf(n) == <<10, 0, n, 0, 24>>

\* a virtual IP numbered from the member count after the join
virtualIPOfAfter(m) == <<10, 0, m + 2, m + 3>>

\* fmt.Sprintf("10.0.%d.%d", m+1, m+2)
virtualIPOf(m) == <<10, 0, m + 1, m + 2>>

\* what the test file and the client send; CreateRoomRequest has no field for the
\* session_token member, so the JSON decoder drops it
CreateRoomRequests ==
    {[Name |-> c.Name, PreferredTransport |-> c.PreferredTransport, MTU |-> c.MTU,
      session_token |-> t] : c \in CreateRoomInputs, t \in {EmptyString, newToken(1)}}

\* createRoom that does not wait for the lock before it saves
handleCreateRoomNoLock(req) ==
    /\ running
    /\ CanCreate
    /\ LET n == Cardinality(DOMAIN rooms) + 1
           roomID == roomIDOf(n)
           subnet == subnetOf(n)
           mtu == IF req.MTU = 0 THEN DefaultMTU ELSE req.MTU
           transport == IF req.PreferredTransport = "" THEN TransportUDP
                        ELSE req.PreferredTransport
           rec == [ID |-> roomID, Name |-> req.Name, PreferredTransport |-> transport,
                   MTU |-> mtu, OverlaySubnet |-> subnet,
                   KeepaliveInterval |-> DefaultKeepaliveInterval, Members |-> EmptyMap]
       IN /\ rooms' = Put(rooms, roomID, rec)
          /\ UNCHANGED <<users, admin, sessions, deviceBags, nextToken>>
          /\ persistLocked(Response("createRoom", StatusOK,
                [RoomID |-> roomID, OverlaySubnet |-> subnet,
                 PreferredTransport |-> rec.PreferredTransport, MTU |-> rec.MTU]))
    /\ UNCHANGED <<environment, files>>

handleCreateRoom(req) ==
    /\ running
    /\ mu = "unlocked"
    /\ CanCreate
    /\ LET n == Cardinality(DOMAIN rooms) + 1
           roomID == roomIDOf(n)
           subnet == subnetOf(n)
           mtu == IF req.MTU = 0 THEN DefaultMTU ELSE req.MTU
           transport == IF req.PreferredTransport = "" THEN TransportUDP
                        ELSE req.PreferredTransport
           rec == [ID |-> roomID, Name |-> req.Name, PreferredTransport |-> transport,
                   MTU |-> mtu, OverlaySubnet |-> subnet,
                   KeepaliveInterval |-> DefaultKeepaliveInterval, Members |-> EmptyMap]
       IN /\ rooms' = Put(rooms, roomID, rec)
          /\ UNCHANGED <<users, admin, sessions, deviceBags, nextToken>>
          /\ persistLocked(Response("createRoom", StatusOK,
                [RoomID |-> roomID, OverlaySubnet |-> subnet,
                 PreferredTransport |-> rec.PreferredTransport, MTU |-> rec.MTU]))
    /\ UNCHANGED <<environment, files>>

JoinRoomRequests ==
    [RoomID : {roomIDOf(n) : n \in 0..MaxRooms},
     DeviceID : {RigDevice, <<"device-1">>},
     SessionToken : TokenInputs]

\* joinRoom that enters the device in every room
handleJoinRoomEveryRoom(req) ==
    /\ running
    /\ mu = "unlocked"
    /\ IF req.SessionToken \notin DOMAIN sessions
       THEN /\ Finish(Response("joinRoom", StatusUnauthorized,
                               ErrorBody("session invalid")))
            /\ UNCHANGED <<memory, nextToken, leases>>
       ELSE IF req.RoomID \notin DOMAIN rooms
       THEN /\ Finish(Response("joinRoom", StatusNotFound,
                               ErrorBody("room not found")))
            /\ UNCHANGED <<memory, nextToken, leases>>
       ELSE LET username == sessions[req.SessionToken]
                room == rooms[req.RoomID]
            IN /\ CanDraw(1)
               /\ rooms' = [id \in DOMAIN rooms |->
                              [rooms[id] EXCEPT !.Members =
                                   Put(rooms[id].Members, req.DeviceID, username)]]
               /\ nextToken' = nextToken + 1
               /\ leases' = Put(leases, <<req.RoomID, req.DeviceID>>,
                                 virtualIPOf(Cardinality(DOMAIN room.Members)))
               /\ UNCHANGED <<users, admin, sessions, deviceBags>>
               /\ persistLocked(Response("joinRoom", StatusOK,
                    [VirtualIP |-> virtualIPOf(Cardinality(DOMAIN room.Members)),
                     SessionKey |-> newToken(nextToken),
                     Transport |-> room.PreferredTransport,
                     KeepaliveIntervalSec |-> room.KeepaliveInterval,
                     OverlaySubnetReference |-> room.OverlaySubnet]))
    /\ UNCHANGED <<running, persistPath, restarts, faults, files>>

\* joinRoom that does not wait for the lock
handleJoinRoomNoLock(req) ==
    /\ running
    /\ IF req.SessionToken \notin DOMAIN sessions
       THEN /\ Finish(Response("joinRoom", StatusUnauthorized,
                               ErrorBody("session invalid")))
            /\ UNCHANGED <<memory, nextToken, leases>>
       ELSE IF req.RoomID \notin DOMAIN rooms
       THEN /\ Finish(Response("joinRoom", StatusNotFound,
                               ErrorBody("room not found")))
            /\ UNCHANGED <<memory, nextToken, leases>>
       ELSE LET username == sessions[req.SessionToken]
                room == rooms[req.RoomID]
                virtualIP == virtualIPOf(Cardinality(DOMAIN room.Members))
                sessionKey == newToken(nextToken)
            IN /\ CanDraw(1)
               /\ rooms' = [rooms EXCEPT ![req.RoomID].Members =
                                Put(room.Members, req.DeviceID, username)]
               /\ nextToken' = nextToken + 1
               /\ leases' = Put(leases, <<req.RoomID, req.DeviceID>>,
                                 virtualIPOf(Cardinality(DOMAIN room.Members)))
               /\ UNCHANGED <<users, admin, sessions, deviceBags>>
               /\ persistLocked(Response("joinRoom", StatusOK,
                    [VirtualIP |-> virtualIP, SessionKey |-> sessionKey,
                     Transport |-> room.PreferredTransport,
                     KeepaliveIntervalSec |-> room.KeepaliveInterval,
                     OverlaySubnetReference |-> room.OverlaySubnet]))
    /\ UNCHANGED <<running, persistPath, restarts, faults, files>>

\* joinRoom that looks the room up before the session
handleJoinRoomRoomFirst(req) ==
    /\ running
    /\ mu = "unlocked"
    /\ IF req.RoomID \notin DOMAIN rooms
       THEN /\ Finish(Response("joinRoom", StatusNotFound,
                               ErrorBody("room not found")))
            /\ UNCHANGED <<memory, nextToken, leases>>
       ELSE IF req.SessionToken \notin DOMAIN sessions
       THEN /\ Finish(Response("joinRoom", StatusUnauthorized,
                               ErrorBody("session invalid")))
            /\ UNCHANGED <<memory, nextToken, leases>>
       ELSE LET username == sessions[req.SessionToken]
                room == rooms[req.RoomID]
                virtualIP == virtualIPOf(Cardinality(DOMAIN room.Members))
                sessionKey == newToken(nextToken)
            IN /\ CanDraw(1)
               /\ rooms' = [rooms EXCEPT ![req.RoomID].Members =
                                Put(room.Members, req.DeviceID, username)]
               /\ nextToken' = nextToken + 1
               /\ leases' = Put(leases, <<req.RoomID, req.DeviceID>>,
                                 virtualIPOf(Cardinality(DOMAIN room.Members)))
               /\ UNCHANGED <<users, admin, sessions, deviceBags>>
               /\ persistLocked(Response("joinRoom", StatusOK,
                    [VirtualIP |-> virtualIP, SessionKey |-> sessionKey,
                     Transport |-> room.PreferredTransport,
                     KeepaliveIntervalSec |-> room.KeepaliveInterval,
                     OverlaySubnetReference |-> room.OverlaySubnet]))
    /\ UNCHANGED <<running, persistPath, restarts, faults, files>>

handleJoinRoom(req) ==
    /\ running
    /\ mu = "unlocked"
    /\ IF req.SessionToken \notin DOMAIN sessions
       THEN /\ Finish(Response("joinRoom", StatusUnauthorized,
                               ErrorBody("session invalid")))
            /\ UNCHANGED <<memory, nextToken, leases>>
       ELSE IF req.RoomID \notin DOMAIN rooms
       THEN /\ Finish(Response("joinRoom", StatusNotFound,
                               ErrorBody("room not found")))
            /\ UNCHANGED <<memory, nextToken, leases>>
       ELSE LET username == sessions[req.SessionToken]
                room == rooms[req.RoomID]
                virtualIP == virtualIPOf(Cardinality(DOMAIN room.Members))
                sessionKey == newToken(nextToken)
            IN /\ CanDraw(1)
               /\ rooms' = [rooms EXCEPT ![req.RoomID].Members =
                                Put(room.Members, req.DeviceID, username)]
               /\ nextToken' = nextToken + 1
               /\ leases' = Put(leases, <<req.RoomID, req.DeviceID>>,
                                 virtualIPOf(Cardinality(DOMAIN room.Members)))
               /\ UNCHANGED <<users, admin, sessions, deviceBags>>
               /\ persistLocked(Response("joinRoom", StatusOK,
                    [VirtualIP |-> virtualIP, SessionKey |-> sessionKey,
                     Transport |-> room.PreferredTransport,
                     KeepaliveIntervalSec |-> room.KeepaliveInterval,
                     OverlaySubnetReference |-> room.OverlaySubnet]))
    /\ UNCHANGED <<running, persistPath, restarts, faults, files>>

\* a keepalive that counts the sequence number on
handleKeepaliveNext(req) ==
    /\ running
    /\ Finish(Response("keepalive", StatusOK,
                       [Sequence |-> req.Sequence + 1, RecommendedDelay |-> RecommendedDelay]))
    /\ UNCHANGED <<environment, memory, files, nextToken>>

handleKeepalive(req) ==
    /\ running
    /\ Finish(Response("keepalive", StatusOK,
                       [Sequence |-> req.Sequence, RecommendedDelay |-> RecommendedDelay]))
    /\ UNCHANGED <<environment, memory, files, nextToken>>

TunnelOffers ==
    {[RoomID |-> roomIDOf(n), Transport |-> o.Transport, CipherSuite |-> o.CipherSuite,
      EphemeralKey |-> o.EphemeralKey] : n \in 0..MaxRooms, o \in OfferInputs}

\* a bootstrap that answers the room's preference whatever is offered
handleTunnelBootstrapRoomPreference(req) ==
    /\ running
    /\ mu = "unlocked"
    /\ IF req.RoomID \notin DOMAIN rooms
       THEN Finish(Response("bootstrapTunnel", StatusNotFound,
                            ErrorBody("room not found")))
       ELSE LET room == rooms[req.RoomID]
                cipher == IF req.CipherSuite = "" THEN CipherSuiteAES256GCM
                          ELSE req.CipherSuite
            IN Finish(Response("bootstrapTunnel", StatusOK,
                    [Transport |-> room.PreferredTransport, CipherSuite |-> cipher,
                     EphemeralKey |-> req.EphemeralKey]))
    /\ UNCHANGED <<environment, memory, files, nextToken>>

\* Lock, look the room up, Unlock, then answer from the room record. The fields the
\* answer reads are written once, before the record enters the map.
handleTunnelBootstrap(req) ==
    /\ running
    /\ mu = "unlocked"
    /\ IF req.RoomID \notin DOMAIN rooms
       THEN Finish(Response("bootstrapTunnel", StatusNotFound,
                            ErrorBody("room not found")))
       ELSE LET room == rooms[req.RoomID]
                transport == IF req.Transport = "" THEN room.PreferredTransport
                             ELSE req.Transport
                cipher == IF req.CipherSuite = "" THEN CipherSuiteAES256GCM
                          ELSE req.CipherSuite
            IN Finish(Response("bootstrapTunnel", StatusOK,
                    [Transport |-> transport, CipherSuite |-> cipher,
                     EphemeralKey |-> req.EphemeralKey]))
    /\ UNCHANGED <<environment, memory, files, nextToken>>

\* handleTunnelBootstrap step by step. First s.mu.Lock(), the lookup of the room
\* pointer, s.mu.Unlock():
handleTunnelBootstrapLookup(req) ==
    /\ running
    /\ mu = "unlocked"
    /\ offer = NoOffer
    /\ offer' = [pc |-> "answer", req |-> req, ok |-> req.RoomID \in DOMAIN rooms]
    /\ UNCHANGED <<environment, memory, mu, saving, files, nextToken, last>>

\* then, the lock released, the 404 or the read of room.PreferredTransport and the
\* answer
handleTunnelBootstrapAnswer ==
    /\ running
    /\ offer.pc = "answer"
    /\ offer' = NoOffer
    /\ IF ~offer.ok
       THEN last' = Response("bootstrapTunnel", StatusNotFound, ErrorBody("room not found"))
       ELSE LET req == offer.req
                transport == IF req.Transport = ""
                             THEN rooms[req.RoomID].PreferredTransport
                             ELSE req.Transport
                cipher == IF req.CipherSuite = "" THEN CipherSuiteAES256GCM
                          ELSE req.CipherSuite
            IN last' = Response("bootstrapTunnel", StatusOK,
                    [Transport |-> transport, CipherSuite |-> cipher,
                     EphemeralKey |-> req.EphemeralKey])
    /\ UNCHANGED <<environment, memory, mu, saving, files, nextToken>>

\* spec 4.4 and 6: updateAdminRole(sessionToken, targetUser, grant)
AdminRoleUpdateRequests ==
    [SessionToken : TokenInputs, TargetUser : {Nova}, Grant : BOOLEAN]

\* a role check that lets every user through
canManageRolesAnyone(username) == TRUE

\* spec 4.4: canManageRoles(username) is the user's admin flag
canManageRoles(username) == admin[username]

handleUpdateAdminRole(req) ==
    /\ running
    /\ mu = "unlocked"
    /\ IF req.SessionToken \notin DOMAIN sessions
       THEN /\ Finish(Response("updateAdminRole", StatusUnauthorized,
                               ErrorBody("session invalid")))
            /\ UNCHANGED memory
       ELSE IF ~canManageRoles(sessions[req.SessionToken])
       THEN /\ Finish(Response("updateAdminRole", StatusForbidden,
                               ErrorBody("admin required")))
            /\ UNCHANGED memory
       ELSE IF req.TargetUser \notin DOMAIN users
       THEN /\ Finish(Response("updateAdminRole", StatusNotFound,
                               ErrorBody("user not found")))
            /\ UNCHANGED memory
       ELSE /\ admin' = [admin EXCEPT ![req.TargetUser] = req.Grant]
            /\ UNCHANGED <<users, sessions, deviceBags, rooms>>
            /\ persistLocked(Response("updateAdminRole", StatusOK,
                                      [IsAdmin |-> req.Grant]))
    /\ UNCHANGED <<environment, files, nextToken>>

----------------------------------------------------------------------------
(* saveState, step by step, by the handler that holds the lock *)

\* os.WriteFile(tmp, encoded, 0o600) returns nil
saveWriteTemp ==
    /\ running /\ saving.pc = "write"
    /\ tmp' = Snapshot
    /\ saving' = [saving EXCEPT !.pc = "rename"]
    /\ offer' = offer
    /\ last' = Quiet
    /\ UNCHANGED <<environment, memory, mu, disk, saved, nextToken>>

\* writeJSON or writeError, then the deferred Unlock
respond(resp) ==
    /\ last' = resp
    /\ mu' = "unlocked"
    /\ saving' = Idle
    /\ offer' = offer

\* os.Rename(tmp, path) returns nil, so saveState and persistLocked return nil
saveRename ==
    /\ running /\ saving.pc = "rename"
    /\ disk' = tmp
    /\ tmp' = NoFile
    /\ saved' = [kind |-> "state", Users |-> users, Admins |-> admin,
                 DeviceBags |-> deviceBags, Rooms |-> rooms]
    /\ respond(saving.resp)
    /\ UNCHANGED <<environment, memory, nextToken>>

persistError == Response(saving.resp.op, StatusInternalServerError, ErrorBody("persist"))

\* a failed write whose handler sends the answer it had prepared
saveWriteFailsAnswers ==
    /\ running /\ saving.pc = "write"
    /\ faults < MaxFaults
    /\ faults' = faults + 1
    /\ tmp' \in {tmp, PartialFile}
    /\ respond(saving.resp)
    /\ UNCHANGED <<running, persistPath, restarts, leases, memory, disk, saved, nextToken>>

\* os.MkdirAll or os.WriteFile returns an error: the temporary file is untouched,
\* or created and cut short
saveWriteFails ==
    /\ running /\ saving.pc = "write"
    /\ faults < MaxFaults
    /\ faults' = faults + 1
    /\ tmp' \in {tmp, PartialFile}
    /\ respond(persistError)
    /\ UNCHANGED <<running, persistPath, restarts, leases, memory, disk, saved, nextToken>>

\* a failed rename that answers without the deferred Unlock
saveRenameFailsLocked ==
    /\ running /\ saving.pc = "rename"
    /\ faults < MaxFaults
    /\ faults' = faults + 1
    /\ last' = persistError
    /\ saving' = Idle
    /\ UNCHANGED <<running, persistPath, restarts, leases, memory, mu, offer, files, nextToken>>

\* os.Rename returns an error: both files stay as they are
saveRenameFails ==
    /\ running /\ saving.pc = "rename"
    /\ faults < MaxFaults
    /\ faults' = faults + 1
    /\ respond(persistError)
    /\ UNCHANGED <<running, persistPath, restarts, leases, memory, files, nextToken>>

----------------------------------------------------------------------------
(* Specifications *)

Init ==
    /\ running = FALSE
    /\ persistPath \in {"", StatePath}
    /\ users = EmptyMap /\ admin = EmptyMap /\ sessions = EmptyMap
    /\ deviceBags = EmptyMap /\ rooms = EmptyMap
    /\ mu = "unlocked"
    /\ saving = Idle
    /\ offer = NoOffer
    /\ disk = NoFile /\ tmp = NoFile
    /\ saved = NoState
    /\ nextToken = 1
    /\ restarts = 0
    /\ faults = 0
    /\ leases = EmptyMap
    /\ last = Quiet

\* doJSON of the API client: the answer is read off the connection; the client sends
\* its next request after that
doJSON ==
    /\ last # Quiet
    /\ last' = Quiet
    /\ UNCHANGED <<environment, memory, handlers, files, nextToken>>

Register == last = Quiet /\ \E req \in RegisterRequests : handleRegister(req)
Login == last = Quiet /\ \E req \in LoginRequests : handleLogin(req)
Refresh == last = Quiet /\ \E req \in RefreshRequests : handleRefresh(req)
CreateRoom == last = Quiet /\ \E req \in CreateRoomRequests : handleCreateRoom(req)
JoinRoom == last = Quiet /\ \E req \in JoinRoomRequests : handleJoinRoom(req)
Keepalive == last = Quiet /\ \E n \in SequenceInputs : handleKeepalive([Sequence |-> n])
TunnelBootstrap == last = Quiet /\ \E req \in TunnelOffers : handleTunnelBootstrap(req)
UpdateAdminRole ==
    last = Quiet /\ \E req \in AdminRoleUpdateRequests : handleUpdateAdminRole(req)

\* the service on a storage medium whose writes and renames succeed
NextReliable ==
    \/ NewServerWithStorage
    \/ Crash
    \/ doJSON
    \/ Register
    \/ Login
    \/ Refresh
    \/ CreateRoom
    \/ JoinRoom
    \/ Keepalive
    \/ TunnelBootstrap
    \/ UpdateAdminRole
    \/ saveWriteTemp
    \/ saveRename

SpecReliable == Init /\ [][NextReliable]_vars

\* the same, on a medium that may fail a write or a rename
Next ==
    \/ NextReliable
    \/ saveWriteFails
    \/ saveRenameFails

Spec == Init /\ [][Next]_vars

\* startup, registration, login, room creation and saves, with SeedSalts for the
\* salts randomSalt returns at startup
NewServerWithSeedSalt == \E salt \in SeedSalts : NewServerWithSalt(salt)

NextStartup ==
    \/ NewServerWithSeedSalt
    \/ Crash
    \/ doJSON
    \/ Register
    \/ Login
    \/ CreateRoom
    \/ saveWriteTemp
    \/ saveRename

SpecStartup == Init /\ [][NextStartup]_vars

\* State files an operator may hand to the first start: none, a malformed one, and
\* well-formed documents that lack one or two of the three collections
NovaRecord ==
    [Username |-> Nova, Salt |-> <<"c2FsdA==">>,
     Hash |-> hashPassword(Warp123, <<"c2FsdA==">>), Device |-> RigDevice]
AlphaRoom ==
    [ID |-> roomIDOf(1), Name |-> <<"alpha">>, PreferredTransport |-> TransportUDP,
     MTU |-> DefaultMTU, OverlaySubnet |-> subnetOf(1),
     KeepaliveInterval |-> DefaultKeepaliveInterval, Members |-> EmptyMap]
JSONFile(doc) ==
    [kind |-> "json", doc |-> doc, admins |-> encodeAdmin(Put(EmptyMap, Nova, TRUE))]
StateFiles ==
    {NoFile, PartialFile,
     JSONFile([users |-> encodeMap(Put(EmptyMap, Nova, NovaRecord))]),
     JSONFile([users |-> encodeMap(Put(EmptyMap, Nova, NovaRecord)),
               rooms |-> encodeMap(Put(EmptyMap, roomIDOf(1), encodeRoom(AlphaRoom)))]),
     JSONFile([users |-> encodeMap(Put(EmptyMap, Nova, NovaRecord)),
               device_bags |-> encodeMap(Put(EmptyMap, RigDevice, Nova))]),
     JSONFile([device_bags |-> encodeMap(Put(EmptyMap, RigDevice, Nova)),
               rooms |-> encodeMap(Put(EmptyMap, roomIDOf(1), encodeRoom(AlphaRoom)))])}

\* the service started on a path where one of StateFiles lies
InitLoad ==
    /\ running = FALSE
    /\ persistPath = StatePath
    /\ users = EmptyMap /\ admin = EmptyMap /\ sessions = EmptyMap
    /\ deviceBags = EmptyMap /\ rooms = EmptyMap
    /\ mu = "unlocked"
    /\ saving = Idle
    /\ offer = NoOffer
    /\ disk \in StateFiles /\ tmp = NoFile
    /\ saved = NoState
    /\ nextToken = 1
    /\ restarts = 0
    /\ faults = 0
    /\ leases = EmptyMap
    /\ last = Quiet

NextLoad ==
    \/ NewServerWithStorage
    \/ Crash
    \/ doJSON
    \/ Register
    \/ Login
    \/ CreateRoom
    \/ saveWriteTemp
    \/ saveRename

SpecLoad == InitLoad /\ [][NextLoad]_vars

\* the handlers that use the lock, with bootstrapTunnel taken step by step
TunnelLookup == last = Quiet /\ \E req \in TunnelOffers : handleTunnelBootstrapLookup(req)

NextLocking ==
    \/ NewServerWithStorage
    \/ doJSON
    \/ Login
    \/ CreateRoom
    \/ JoinRoom
    \/ TunnelLookup
    \/ handleTunnelBootstrapAnswer
    \/ saveWriteTemp
    \/ saveRename

SpecLocking == Init /\ [][NextLocking]_vars

\* registration with usernames and passwords of every shape the validation tells
\* apart: empty, blank, with a space, a tab or a newline inside or at the end
WideUsernames ==
    UsernameInputs \cup {<<"\t">>, <<"no", "\t", "va">>, <<"nova", "\n">>, <<" ", "nova">>}
WidePasswords == {Warp123, EmptyString, <<" ">>, <<"warp", " ", "123">>}
WideRegisterRequests ==
    [Username : WideUsernames, Password : WidePasswords, DeviceID : {RigDevice}]

RegisterAny == last = Quiet /\ \E req \in WideRegisterRequests : handleRegister(req)

NextValidation ==
    \/ NewServerWithStorage
    \/ doJSON
    \/ RegisterAny
    \/ Login
    \/ saveWriteTemp
    \/ saveRename

SpecValidation == Init /\ [][NextValidation]_vars

\* createRoom with every kind of transport string a client may send: none, the
\* two the server names, one in capitals and one it does not know
AnyTransports == {"", TransportUDP, TransportTCP, "UDP", "quic"}
AnyCreateRoomRequests ==
    {[Name |-> n, PreferredTransport |-> t, MTU |-> 0, session_token |-> EmptyString] :
        n \in RoomNames, t \in AnyTransports}

CreateRoomAny == last = Quiet /\ \E req \in AnyCreateRoomRequests : handleCreateRoom(req)

NextTransport ==
    \/ NewServerWithStorage
    \/ Crash
    \/ doJSON
    \/ CreateRoomAny
    \/ TunnelBootstrap
    \/ saveWriteTemp
    \/ saveRename

SpecTransport == Init /\ [][NextTransport]_vars


\* every handler that uses the lock, bootstrapTunnel step by step, on a medium
\* that may fail a write or a rename; a save step that can be taken is taken, and
\* a bootstrap that has looked its room up answers
NextFair ==
    \/ NewServerWithStorage
    \/ doJSON
    \/ Register
    \/ Login
    \/ CreateRoom
    \/ JoinRoom
    \/ TunnelLookup
    \/ handleTunnelBootstrapAnswer
    \/ saveWriteTemp
    \/ saveRename
    \/ saveWriteFails
    \/ saveRenameFails

SpecFair ==
    /\ Init /\ [][NextFair]_vars
    /\ WF_vars(saveWriteTemp) /\ WF_vars(saveRename)
    /\ WF_vars(handleTunnelBootstrapAnswer)


----------------------------------------------------------------------------
(* What a handler has answered, or will answer once its save returns *)

Outcome == IF saving.pc = "idle" THEN last ELSE saving.resp

\* the password a user was created with: the demo user by seedDemoUser, every other
\* user by the one non-empty password of RegisterRequests
registeredPassword(username) == IF username = Gamer THEN Password123 ELSE Warp123

----------------------------------------------------------------------------
(* Login and registration *)

\* C1: login of a stored user with the password the user was created with answers
\* 200 with a fresh session token that the session map resolves to that user; login
\* with any other password, or of a user the store does not hold, answers 401 and
\* draws no token: the session and device maps are as before.
C1_LoginChecksPassword ==
    [][\A req \in LoginRequests : handleLogin(req) =>
        IF req.Username \in DOMAIN users
           /\ req.Password = registeredPassword(req.Username)
        THEN /\ Outcome'.op = "login" /\ Outcome'.status = StatusOK
             /\ Outcome'.body.SessionToken \notin DOMAIN sessions
             /\ Outcome'.body.SessionToken \in DOMAIN sessions'
             /\ sessions'[Outcome'.body.SessionToken] = req.Username
        ELSE /\ Outcome'.op = "login" /\ Outcome'.status = StatusUnauthorized
             /\ sessions' = sessions /\ deviceBags' = deviceBags
             /\ nextToken' = nextToken]_vars

\* a registered user has logged in and holds a session that resolves to that user
C1_Witness ==
    /\ last.op = "login" /\ last.status = StatusOK
    /\ Nova \in DOMAIN users
    /\ last.body.SessionToken \in DOMAIN sessions
    /\ sessions[last.body.SessionToken] = Nova

\* C2: a register call with a well-formed username and password for a username the
\* store already holds answers 409; a register call for such a username answers 409
\* or 400 and in both cases leaves users, sessions, device bindings, rooms and both
\* files as they were, so the tokens of the first registration still resolve to that
\* user.
C2_DuplicateRegisterChangesNothing ==
    [][\A req \in RegisterRequests :
        req.Username \in DOMAIN users /\ handleRegister(req) =>
            /\ last'.op = "register"
            /\ last'.status = IF TrimSpace(req.Password) = EmptyString
                              THEN StatusBadRequest ELSE StatusConflict
            /\ UNCHANGED <<memory, files>>
            /\ \A t \in DOMAIN sessions :
                   t \in DOMAIN sessions' /\ sessions'[t] = sessions[t]
            /\ \A t \in DOMAIN deviceBags :
                   t \in DOMAIN deviceBags' /\ deviceBags'[t] = deviceBags[t]]_vars

\* a second registration of nova was refused while the tokens of the first resolve
C2_Witness ==
    /\ last.op = "register" /\ last.status = StatusConflict
    /\ Nova \in DOMAIN users
    /\ \E t \in DOMAIN sessions : sessions[t] = Nova
    /\ \E t \in DOMAIN deviceBags : t # users[Nova].Device /\ deviceBags[t] = Nova

\* C2 as the specification words it: every register call for a stored username
\* answers 409
C2_AlwaysConflict ==
    [][\A req \in RegisterRequests :
        req.Username \in DOMAIN users /\ handleRegister(req) =>
            last'.status = StatusConflict]_vars

----------------------------------------------------------------------------
(* Room creation and the admin role *)

\* C3: createRoom with a session token that resolves to no user is refused and
\* stores no room: the room map and the state file are as before.
C3_UnresolvedSessionCreatesNoRoom ==
    [][\A req \in CreateRoomRequests :
        req.session_token \notin DOMAIN sessions /\ handleCreateRoom(req) =>
            /\ Outcome'.status # StatusOK
            /\ rooms' = rooms
            /\ disk' = disk]_vars

\* C4: createRoom with the session of a user whose admin flag is unset answers 403
\* and stores no room.
C4_NonAdminCannotCreateRoom ==
    [][\A req \in CreateRoomRequests :
        /\ req.session_token \in DOMAIN sessions
        /\ ~admin[sessions[req.session_token]]
        /\ handleCreateRoom(req)
        => /\ Outcome'.status = StatusForbidden
           /\ rooms' = rooms]_vars

\* C5: a registration that succeeds while no registered user is stored or persisted
\* (the store holds at most the seeded demo user, the state file holds nothing)
\* sets the new user's admin flag; every other successful registration leaves it
\* unset.
C5_FirstRegisteredUserIsAdmin ==
    [][\A req \in RegisterRequests :
        req.Username \notin DOMAIN users /\ handleRegister(req) /\ users' # users =>
            admin'[req.Username] = (DOMAIN users \subseteq {Gamer} /\ disk = NoFile)]_vars

\* C6: updateAdminRole by a session whose user is not admin answers 403, by an admin
\* for a target the store does not hold answers 404, and in both cases no admin flag
\* changes; otherwise the target's flag becomes the requested value, no other flag
\* changes, and the answer carries the resulting flag.
C6_UpdateAdminRole ==
    [][\A req \in AdminRoleUpdateRequests :
        req.SessionToken \in DOMAIN sessions /\ handleUpdateAdminRole(req) =>
            IF ~admin[sessions[req.SessionToken]]
            THEN Outcome'.status = StatusForbidden /\ admin' = admin
            ELSE IF req.TargetUser \notin DOMAIN users
            THEN Outcome'.status = StatusNotFound /\ admin' = admin
            ELSE /\ Outcome'.status = StatusOK
                 /\ admin' = [admin EXCEPT ![req.TargetUser] = req.Grant]
                 /\ Outcome'.body.IsAdmin = admin'[req.TargetUser]]_vars

\* an admin has granted nova the role and the answer says so
C6_Witness ==
    /\ last.op = "updateAdminRole" /\ last.status = StatusOK
    /\ last.body.IsAdmin
    /\ Nova \in DOMAIN admin /\ admin[Nova]

----------------------------------------------------------------------------
(* Joining *)

\* C7: joinRoom with a room ID the room map does not hold answers 404 when the
\* session token resolves and 401 when it does not, and in both cases no room and
\* no member set changes.
C7_JoinUnknownRoom ==
    [][\A req \in JoinRoomRequests :
        req.RoomID \notin DOMAIN rooms /\ handleJoinRoom(req) =>
            /\ last'.op = "joinRoom"
            /\ last'.status = IF req.SessionToken \in DOMAIN sessions
                              THEN StatusNotFound ELSE StatusUnauthorized
            /\ rooms' = rooms]_vars

\* a logged-in user asked for a room that is not there, next to one that is
C7_Witness ==
    /\ last.op = "joinRoom" /\ last.status = StatusNotFound
    /\ DOMAIN rooms # {}
    /\ DOMAIN sessions # {}

\* C7 as the specification words it: 404 whether the session resolves or not
C7_AlwaysNotFound ==
    [][\A req \in JoinRoomRequests :
        req.RoomID \notin DOMAIN rooms /\ handleJoinRoom(req) =>
            last'.status = StatusNotFound /\ rooms' = rooms]_vars

----------------------------------------------------------------------------
(* Persistence *)

\* C8: when the service has started on a path whose file a completed save wrote,
\* its users (salt, hash, device), admin flags, device bindings and rooms (ID, name,
\* transport, MTU, subnet, keepalive, members) are those that save was given and no
\* session is left; so every such user passes the credential check with the
\* password the user was created with, and every such room is in the room map with
\* its subnet.
C8_RestartRoundTrip ==
    (running /\ last.op = "start" /\ persistPath # "" /\ saved # NoState) =>
        /\ users = saved.Users
        /\ admin = saved.Admins
        /\ deviceBags = saved.DeviceBags
        /\ rooms = saved.Rooms
        /\ sessions = EmptyMap
        /\ \A u \in DOMAIN saved.Users :
               credentialsOK([Username |-> u, Password |-> registeredPassword(u)])
        /\ \A id \in DOMAIN saved.Rooms :
               id \in DOMAIN rooms /\ rooms[id].OverlaySubnet = saved.Rooms[id].OverlaySubnet

\* restarted on a file that holds a registered user and a room with a member
C8_Witness ==
    /\ running /\ last.op = "start" /\ restarts > 0 /\ persistPath # ""
    /\ Nova \in DOMAIN users
    /\ \E id \in DOMAIN rooms : DOMAIN rooms[id].Members # {}

\* C9: whatever step is taken, a crash in the middle of a save included, the state
\* file afterwards is the file as it was or the complete document of the current
\* maps, never a partial one; and startup does not read the temporary file: it
\* succeeds whatever a crash or a failed write left there.
C9_CrashConsistentSave ==
    [][/\ disk' \in {disk, Snapshot}
       /\ disk'.kind # "partial"
       /\ (Crash => disk' = disk)
       /\ (NewServerWithStorage => running' /\ last'.status = StatusOK)]_vars

\* restarted after a crash cut the temporary file short, on the previous document
C9_Witness ==
    /\ running /\ last.op = "start" /\ last.status = StatusOK
    /\ restarts > 0
    /\ tmp = PartialFile
    /\ disk.kind = "json"

\* C10: with a persistence path, when register, login, createRoom or joinRoom has
\* answered 200, the state file is the complete document of the current maps, and
\* it holds the device token, and the user it is bound to, or the room the answer names.
C10_SuccessAfterSave ==
    (persistPath # "" /\ last.op \in {"register", "login", "createRoom", "joinRoom"}
     /\ last.status = StatusOK) =>
        /\ disk = Snapshot
        /\ tmp = NoFile
        /\ LET onDisk == decodeState(disk.doc) IN
           /\ last.op \in {"register", "login"} =>
                /\ last.body.DeviceToken \in DOMAIN onDisk.DeviceBags
                /\ onDisk.DeviceBags[last.body.DeviceToken] \in DOMAIN onDisk.Users
           /\ last.op = "createRoom" => last.body.RoomID \in DOMAIN onDisk.Rooms
           /\ last.op = "joinRoom" =>
                \E id \in DOMAIN onDisk.Rooms :
                    /\ onDisk.Rooms[id].OverlaySubnet = last.body.OverlaySubnetReference
                    /\ DOMAIN onDisk.Rooms[id].Members # {}

\* a join was answered 200 by a service that persists
C10_Witness ==
    /\ persistPath # ""
    /\ last.op = "joinRoom" /\ last.status = StatusOK
    /\ disk.kind = "json"

----------------------------------------------------------------------------
(* Tokens *)

\* C11: every step other than a crash keeps each session-map entry as it is, so a
\* session token resolves to its user from the step that issued it until the process
\* dies; a session token stored by a step is one never drawn before; the state file
\* has no member for sessions; and a started service has an empty session map, so
\* every token issued before the restart is refused.
C11_SessionLifetime ==
    [][/\ Crash \/ \A t \in DOMAIN sessions :
                       t \in DOMAIN sessions' /\ sessions'[t] = sessions[t]
       /\ \A t \in DOMAIN sessions' \ DOMAIN sessions :
              t \notin {newToken(n) : n \in 1..(nextToken - 1)}
       /\ disk'.kind = "json" => DOMAIN disk'.doc = {"users", "device_bags", "rooms"}
       /\ NewServerWithStorage => sessions' = EmptyMap
       /\ \A req \in JoinRoomRequests :
              (req.SessionToken \notin DOMAIN sessions /\ handleJoinRoom(req)) =>
                  last'.op = "joinRoom" /\ last'.status = StatusUnauthorized]_vars

\* after a restart a join was refused while every token drawn so far predates it
C11_Witness ==
    /\ running /\ restarts > 0
    /\ nextToken > 1
    /\ sessions = EmptyMap
    /\ last.op = "joinRoom" /\ last.status = StatusUnauthorized

\* the strings newToken has returned so far
issuedTokens == {newToken(n) : n \in 1..(nextToken - 1)}

\* C12: refresh with a bound device token answers 200 with a fresh session token
\* that resolves to the token's user and leaves the binding in place for the next
\* refresh; every step but a crash keeps each issued token's binding to its user; and
\* a service started on a saved file has the bindings that save was given.
C12_DeviceTokenKeepsRefreshing ==
    [][/\ \A req \in RefreshRequests :
              (req.DeviceToken \in DOMAIN deviceBags /\ handleRefresh(req)) =>
                  /\ Outcome'.op = "refresh" /\ Outcome'.status = StatusOK
                  /\ Outcome'.body.SessionToken \notin DOMAIN sessions
                  /\ Outcome'.body.SessionToken \in DOMAIN sessions'
                  /\ sessions'[Outcome'.body.SessionToken] = deviceBags[req.DeviceToken]
                  /\ deviceBags' = deviceBags
       /\ Crash \/ \A t \in DOMAIN deviceBags \cap issuedTokens :
                       t \in DOMAIN deviceBags' /\ deviceBags'[t] = deviceBags[t]
       /\ (NewServerWithStorage /\ saved # NoState) =>
              deviceBags' = saved.DeviceBags]_vars

\* C13: refresh with a string that no register or login returned as a device token
\* (a string newToken never returned, such as a device id, or a session token)
\* answers 401 and stores no session.
C13_RefreshNeedsDeviceToken ==
    [][\A req \in RefreshRequests :
        /\ req.DeviceToken \notin issuedTokens \/ req.DeviceToken \in DOMAIN sessions
        /\ handleRefresh(req)
        => /\ last'.op = "refresh" /\ last'.status = StatusUnauthorized
           /\ sessions' = sessions]_vars

\* C14: no step changes the user that a session token or a device token resolves to.
C14_TokensNeverReassigned ==
    [][/\ \A t \in DOMAIN sessions \cap DOMAIN sessions' : sessions'[t] = sessions[t]
       /\ \A t \in (DOMAIN deviceBags \cap DOMAIN deviceBags') \cap issuedTokens :
              deviceBags'[t] = deviceBags[t]]_vars

----------------------------------------------------------------------------
(* Tunnel bootstrap and rooms *)

\* C15: bootstrapTunnel on a room the map holds answers 200 with the offered
\* transport when one is offered and the room's preferred transport otherwise, the
\* offered cipher suite when one is offered and aes-256-gcm otherwise, and the
\* offered ephemeral key; on any other room ID it answers 404; and it changes no
\* map, no file, no lock and no token draw.
C15_BootstrapTunnel ==
    [][\A req \in TunnelOffers : handleTunnelBootstrap(req) =>
        /\ UNCHANGED <<environment, memory, handlers, files, nextToken>>
        /\ last'.op = "bootstrapTunnel"
        /\ IF req.RoomID \in DOMAIN rooms
           THEN /\ last'.status = StatusOK
                /\ last'.body.Transport =
                       IF req.Transport # "" THEN req.Transport
                       ELSE rooms[req.RoomID].PreferredTransport
                /\ last'.body.CipherSuite =
                       IF req.CipherSuite # "" THEN req.CipherSuite
                       ELSE CipherSuiteAES256GCM
                /\ last'.body.EphemeralKey = req.EphemeralKey
           ELSE last'.status = StatusNotFound]_vars

\* tcp was offered and answered although every room prefers udp
C15_Witness ==
    /\ last.op = "bootstrapTunnel" /\ last.status = StatusOK
    /\ last.body.Transport = TransportTCP
    /\ DOMAIN rooms # {}
    /\ \A id \in DOMAIN rooms : rooms[id].PreferredTransport = TransportUDP

\* C16: a createRoom that runs with k rooms in the map stores, and on success
\* returns, a room with ID room-(k+1) and overlay subnet 10.0.(k+1).0/24, the
\* requested MTU or 1400 when it is 0, the requested transport or udp when it is
\* empty, keepalive interval 15 and no members.
C16_CreateRoomRecord ==
    [][\A req \in CreateRoomRequests : handleCreateRoom(req) =>
        LET k == Cardinality(DOMAIN rooms)
            id == <<"room-", k + 1>>
            mtu == IF req.MTU = 0 THEN 1400 ELSE req.MTU
            transport == IF req.PreferredTransport = "" THEN "udp"
                         ELSE req.PreferredTransport
        IN /\ DOMAIN rooms' = DOMAIN rooms \cup {id}
           /\ rooms'[id] = [ID |-> id, Name |-> req.Name,
                            PreferredTransport |-> transport, MTU |-> mtu,
                            OverlaySubnet |-> <<10, 0, k + 1, 0, 24>>,
                            KeepaliveInterval |-> 15, Members |-> EmptyMap]
           /\ Outcome'.op = "createRoom" /\ Outcome'.status = StatusOK
           /\ Outcome'.body = [RoomID |-> id, OverlaySubnet |-> <<10, 0, k + 1, 0, 24>>,
                               PreferredTransport |-> transport, MTU |-> mtu]]_vars

\* the second room, created with tcp and MTU 1350, has been answered
C16_Witness ==
    /\ last.op = "createRoom" /\ last.status = StatusOK
    /\ last.body.RoomID = <<"room-", 2>>
    /\ last.body.OverlaySubnet = <<10, 0, 2, 0, 24>>
    /\ last.body.MTU = 1350 /\ last.body.PreferredTransport = TransportTCP
    /\ rooms[<<"room-", 2>>].Members = EmptyMap

\* C17: in every reachable state each room is filed under its own ID and no two
\* rooms have the same overlay subnet, whatever the order of createRoom requests,
\* failed saves, crashes and restarts that load saved rooms; and a createRoom
\* step files the new room under an ID the map did not hold and leaves every
\* room that was there as it was.
C17_RoomsNeverCollide ==
    /\ [](\A a, b \in DOMAIN rooms :
              /\ rooms[a].ID = a
              /\ a # b => rooms[a].OverlaySubnet # rooms[b].OverlaySubnet)
    /\ [][\A req \in CreateRoomRequests : handleCreateRoom(req) =>
              /\ Cardinality(DOMAIN rooms') = Cardinality(DOMAIN rooms) + 1
              /\ \A id \in DOMAIN rooms : rooms'[id] = rooms[id]]_vars

\* a second room was created next to one loaded from the state file
C17_Witness ==
    /\ running /\ restarts > 0
    /\ last.op = "createRoom" /\ last.status = StatusOK
    /\ last.body.RoomID = roomIDOf(2)
    /\ DOMAIN rooms = {roomIDOf(1), roomIDOf(2)}
    /\ saved # NoState /\ DOMAIN saved.Rooms = DOMAIN rooms

\* C18: a joinRoom whose session token resolves to user u, on a room the map holds
\* with m members, answers 200 with virtual IP 10.0.(m+1).(m+2), a session key that
\* is non-empty and was never drawn before, and the room's preferred transport,
\* keepalive interval (positive) and overlay subnet; after the step the room's
\* members map the device ID to u and are otherwise as before, so a device that
\* was already a member leaves the member count as it was.
C18_JoinRoom ==
    [][\A req \in JoinRoomRequests :
        (/\ req.SessionToken \in DOMAIN sessions
         /\ req.RoomID \in DOMAIN rooms
         /\ handleJoinRoom(req)) =>
            LET room == rooms[req.RoomID]
                after == rooms'[req.RoomID].Members
                m == Cardinality(DOMAIN room.Members)
            IN /\ Outcome'.op = "joinRoom" /\ Outcome'.status = StatusOK
               /\ Outcome'.body.VirtualIP = <<10, 0, m + 1, m + 2>>
               /\ Outcome'.body.SessionKey # EmptyString
               /\ Outcome'.body.SessionKey \notin issuedTokens
               /\ Outcome'.body.SessionKey \in issuedTokens'
               /\ Outcome'.body.Transport = room.PreferredTransport
               /\ Outcome'.body.KeepaliveIntervalSec = room.KeepaliveInterval
               /\ Outcome'.body.KeepaliveIntervalSec > 0
               /\ Outcome'.body.OverlaySubnetReference = room.OverlaySubnet
               /\ DOMAIN after = DOMAIN room.Members \cup {req.DeviceID}
               /\ after[req.DeviceID] = sessions[req.SessionToken]
               /\ \A d \in DOMAIN room.Members \ {req.DeviceID} : after[d] = room.Members[d]
               /\ req.DeviceID \in DOMAIN room.Members =>
                      Cardinality(DOMAIN after) = m]_vars

\* a device joined a room it was the only member of: it is given 10.0.2.3 and
\* the room still has one member
C18_Witness ==
    /\ last.op = "joinRoom" /\ last.status = StatusOK
    /\ last.body.VirtualIP = <<10, 0, 2, 3>>
    /\ \E id \in DOMAIN rooms :
           /\ last.body.OverlaySubnetReference = rooms[id].OverlaySubnet
           /\ Cardinality(DOMAIN rooms[id].Members) = 1

----------------------------------------------------------------------------
(* Keepalive and startup *)

\* C19: while the service runs, a keepalive with any sequence number can be
\* answered, also while a handler holds the lock for a save; the answer is 200
\* with that sequence number and recommended delay 5000; no session is asked for;
\* and the step leaves the lock, the pending save, the users, sessions, device
\* tokens, rooms, token draws and the files as they were.
C19_Keepalive ==
    /\ [](running => \A n \in SequenceInputs : ENABLED handleKeepalive([Sequence |-> n]))
    /\ [][\A n \in SequenceInputs : handleKeepalive([Sequence |-> n]) =>
              /\ last' = Response("keepalive", StatusOK,
                                  [Sequence |-> n, RecommendedDelay |-> 5000])
              /\ UNCHANGED <<environment, memory, handlers, files, nextToken>>]_vars

\* a keepalive was answered, with no session in the map, while a request was
\* holding the lock for its save
C19_Witness ==
    /\ last.op = "keepalive" /\ last.status = StatusOK /\ last.body.Sequence = 0
    /\ mu = "locked" /\ saving.pc = "rename"
    /\ sessions = EmptyMap

----------------------------------------------------------------------------
(* Loading, locking and failures *)

\* C21: a start on a path without a file succeeds from an empty loaded state (the
\* demo user is seeded); a start on a malformed file fails, constructs no server
\* and leaves every map empty, and the service never runs or answers a request
\* while the malformed file is there; a start on a well-formed file succeeds, and
\* on each of StateFiles a collection the document lacks is loaded empty while
\* the collections it has are loaded as written.
C21_LoadState ==
    /\ [](/\ disk.kind = "partial" => ~running
          /\ ~running => last.op \in {"none", "start"})
    /\ [][NewServerWithStorage =>
            /\ disk.kind = "absent" =>
                  /\ running' /\ last'.status = StatusOK
                  /\ DOMAIN users' = {Gamer} /\ rooms' = EmptyMap
            /\ disk.kind = "partial" =>
                  /\ ~running' /\ last'.status = StatusInternalServerError
                  /\ users' = EmptyMap /\ sessions' = EmptyMap
                  /\ deviceBags' = EmptyMap /\ rooms' = EmptyMap
            /\ disk.kind = "json" => running' /\ last'.status = StatusOK
            /\ (disk.kind = "json" /\ disk \in StateFiles) =>
                  /\ "users" \notin DOMAIN disk.doc => DOMAIN users' = {Gamer}
                  /\ "users" \in DOMAIN disk.doc =>
                        /\ Nova \in DOMAIN users' /\ users'[Nova] = NovaRecord
                        /\ "device_bags" \notin DOMAIN disk.doc => deviceBags' = EmptyMap
                        /\ "rooms" \notin DOMAIN disk.doc => rooms' = EmptyMap
                        /\ "rooms" \in DOMAIN disk.doc =>
                               rooms' = Put(EmptyMap, roomIDOf(1), AlphaRoom)]_vars

\* a start has failed on a malformed state file
C21_Witness ==
    /\ ~running /\ disk.kind = "partial"
    /\ last.op = "start" /\ last.status = StatusInternalServerError

\* the handler that holds s.mu across steps: the one inside saveState
lockHolder == IF saving.pc = "idle" THEN "none" ELSE saving.resp.op

\* C22: every step that reads or writes a map or a field of a room record is taken
\* by a handler that holds the lock: login, createRoom, joinRoom and the
\* bootstrap lookup take it for their step (it is free before), the save steps run
\* with it held, and the bootstrap answer reads the room's preferred transport
\* only while bootstrapTunnel holds the lock, so never while another handler is
\* between its Lock and its Unlock.
C22_SharedStateUnderLock ==
    [][/\ (Login \/ CreateRoom \/ JoinRoom \/ TunnelLookup) => mu = "unlocked"
       /\ (saveWriteTemp \/ saveRename) => mu = "locked"
       /\ (handleTunnelBootstrapAnswer /\ offer.ok /\ offer.req.Transport = "") =>
              lockHolder = "bootstrapTunnel"]_vars

\* C23: handlers run one at a time in the order they take the lock. While a
\* handler holds the lock for its save, no register, login, createRoom or joinRoom
\* can take a step and no step but a crash changes a map, so each handler works on
\* the state its predecessor left. Hence a register for a username that another
\* register has just stored answers 409 and changes nothing, and a joinRoom adds
\* its device and keeps every other device that earlier joins put into the room.
C23_Serialized ==
    /\ [](mu = "locked" =>
            /\ saving.pc # "idle"
            /\ \A req \in RegisterRequests :
                   req.Username = Nova /\ req.Password = Warp123 => ~ENABLED handleRegister(req)
            /\ \A req \in LoginRequests : ~ENABLED handleLogin(req)
            /\ \A req \in CreateRoomRequests : ~ENABLED handleCreateRoom(req)
            /\ \A req \in JoinRoomRequests : ~ENABLED handleJoinRoom(req))
    /\ [][/\ (mu = "locked" /\ ~Crash) => UNCHANGED memory
          /\ \A req \in RegisterRequests :
                 (/\ req.Username = Nova /\ req.Password = Warp123 /\ Nova \in DOMAIN users
                  /\ handleRegister(req)) =>
                     /\ last'.op = "register" /\ last'.status = StatusConflict
                     /\ UNCHANGED memory
          /\ \A req \in JoinRoomRequests :
                 (/\ req.SessionToken \in DOMAIN sessions /\ req.RoomID \in DOMAIN rooms
                  /\ handleJoinRoom(req)) =>
                     /\ req.DeviceID \in DOMAIN rooms'[req.RoomID].Members
                     /\ \A d \in DOMAIN rooms[req.RoomID].Members \ {req.DeviceID} :
                            /\ d \in DOMAIN rooms'[req.RoomID].Members
                            /\ rooms'[req.RoomID].Members[d] =
                                   rooms[req.RoomID].Members[d]]_vars

\* two devices have joined one room, each join saved in its turn
C23_Witness ==
    /\ last.op = "joinRoom" /\ last.status = StatusOK
    /\ persistPath # "" /\ saved # NoState
    /\ \E id \in DOMAIN rooms :
           /\ Cardinality(DOMAIN rooms[id].Members) = 2
           /\ saved.Rooms[id].Members = rooms[id].Members

\* C24: with save steps that are taken once they can be, a handler that holds the
\* lock releases it and a bootstrap that has looked its room up answers; and
\* whenever a handler answers, with 200, 400, 401, 404, 409 or 500 after a failed
\* save, it leaves the lock free and no save pending, unless it answered without
\* the lock while another handler held it, which then still holds it.
C24_LockReleased ==
    /\ (mu = "locked") ~> (mu = "unlocked")
    /\ (saving.pc # "idle") ~> (saving.pc = "idle")
    /\ (offer.pc = "answer") ~> (offer.pc = "idle")
    /\ [][(last' # last /\ last'.op \notin {"none", "start"}) =>
              \/ mu' = "unlocked" /\ saving'.pc = "idle"
              \/ mu = "locked" /\ UNCHANGED <<mu, saving>>]_vars

\* a save has failed, its handler has answered 500 and the lock is free
C24_Witness ==
    /\ last.op = "joinRoom" /\ last.status = StatusInternalServerError
    /\ faults > 0 /\ mu = "unlocked" /\ saving.pc = "idle"

\* C25: a step in which a handler answers 400, 401, 403, 404 or 409 leaves the
\* users, admin flags, sessions, device bindings, rooms, the state file and the
\* temporary file exactly as they were, takes no lock and starts no save, and the
\* service is still running.
C25_RefusalsChangeNothing ==
    [][(/\ last' # last
        /\ last'.op \notin {"none", "start"}
        /\ last'.status \in {StatusBadRequest, StatusUnauthorized, StatusForbidden,
                             StatusNotFound, StatusConflict}) =>
            /\ UNCHANGED <<memory, files, handlers>>
            /\ running /\ running']_vars

\* joinRoom was refused 404 on a service that holds a saved room
C25_Witness ==
    /\ last.op = "joinRoom" /\ last.status = StatusNotFound
    /\ DOMAIN rooms # {} /\ saved # NoState /\ disk = Snapshot
    /\ running /\ mu = "unlocked"

\* C26: when the save of a register, login, createRoom or joinRoom fails, the
\* handler answers 500 with an error body and none of the tokens or room data it
\* had prepared, the state file and the last saved state stay as they were, and
\* the maps keep what the handler put in them: the session and device token of
\* the register or login, the room of the createRoom, the member of the joinRoom.
C26_FailedSaveKeepsMemory ==
    [][(saveWriteFails \/ saveRenameFails) =>
        LET prepared == saving.resp IN
        /\ prepared.op \in {"register", "login", "createRoom", "joinRoom", "updateAdminRole"}
        /\ last' = Response(prepared.op, StatusInternalServerError, ErrorBody("persist"))
        /\ disk' = disk /\ saved' = saved
        /\ UNCHANGED memory
        /\ mu' = "unlocked"
        /\ prepared.op \in {"register", "login"} =>
              /\ prepared.body.SessionToken \in DOMAIN sessions'
              /\ prepared.body.DeviceToken \in DOMAIN deviceBags'
              /\ sessions'[prepared.body.SessionToken] \in DOMAIN users'
              /\ deviceBags'[prepared.body.DeviceToken] = sessions'[prepared.body.SessionToken]
        /\ prepared.op = "createRoom" =>
              /\ prepared.body.RoomID \in DOMAIN rooms'
              /\ prepared.body.RoomID = roomIDOf(Cardinality(DOMAIN rooms'))
        /\ prepared.op = "joinRoom" =>
              \E id \in DOMAIN rooms' :
                  /\ rooms'[id].OverlaySubnet = prepared.body.OverlaySubnetReference
                  /\ DOMAIN rooms'[id].Members # {}]_vars

\* a register failed in its save, and its retry was refused 409 for a user the
\* state file does not hold
C26_Witness ==
    /\ last.op = "register" /\ last.status = StatusConflict
    /\ faults > 0 /\ Nova \in DOMAIN users
    /\ disk.kind = "absent" /\ saved = NoState

----------------------------------------------------------------------------
(* Validation and records *)

hasWhitespace(s) == \E i \in 1..Len(s) : s[i] \in Whitespace

\* C27: a register whose username is empty or contains a space, a tab or a
\* newline, or whose password is empty, answers 400 and changes no map and no
\* file; and no username in the user map is empty or contains whitespace.
C27_UsernamesWithoutWhitespace ==
    /\ [](\A u \in DOMAIN users : u # EmptyString /\ ~hasWhitespace(u))
    /\ [][\A req \in WideRegisterRequests :
            (/\ \/ req.Username = EmptyString
                \/ req.Password = EmptyString
                \/ hasWhitespace(req.Username)
             /\ handleRegister(req)) =>
                /\ last'.op = "register" /\ last'.status = StatusBadRequest
                /\ UNCHANGED <<memory, files, handlers>>]_vars

\* C28: in every reachable state the preferred transport of every room in the map
\* is udp or tcp, whatever transport string the createRoom request carried.
C28_RoomTransportIsEnum ==
    \A id \in DOMAIN rooms : rooms[id].PreferredTransport \in {TransportUDP, TransportTCP}

\* C29: right after a save has succeeded, the state file decodes without error to
\* exactly the users, device bindings and rooms in memory, whatever earlier saves
\* failed: what the handlers of those saves had put in the maps is in the file too.
C29_SaveWritesWholeState ==
    [][saveRename =>
        LET loaded == loadState(disk') IN
        /\ ~loaded.err
        /\ loaded.state.Users = users'
        /\ loaded.state.DeviceBags = deviceBags'
        /\ loaded.state.Rooms = rooms'
        /\ tmp' = NoFile]_vars

\* the save of a createRoom failed, and the save of the login after it has
\* written the room with the users
C29_Witness ==
    /\ last.op = "login" /\ last.status = StatusOK
    /\ faults > 0 /\ restarts = 0 /\ nextToken = 3
    /\ DOMAIN rooms = {roomIDOf(1)}
    /\ loadState(disk).state.Rooms = rooms
    /\ saved # NoState /\ saved.Rooms = rooms

\* C30: while the service runs, every step keeps every user in the map with the
\* same username, salt, hash and device; a start on a saved state file brings
\* back every user of the last successful save with the same record; a save never
\* drops or alters a user an earlier save wrote; and an admin flag changes only
\* in an updateAdminRole step.
C30_UserRecordsOnlyGrow ==
    [][/\ (running /\ running') =>
              \A u \in DOMAIN users : u \in DOMAIN users' /\ users'[u] = users[u]
       /\ (NewServerWithStorage /\ running' /\ persistPath # "" /\ saved # NoState) =>
              \A u \in DOMAIN saved.Users :
                  u \in DOMAIN users' /\ users'[u] = saved.Users[u]
       /\ (saved # NoState /\ saved' # saved) =>
              \A u \in DOMAIN saved.Users :
                  u \in DOMAIN saved'.Users /\ saved'.Users[u] = saved.Users[u]
       /\ (running /\ running' /\ \E u \in DOMAIN admin : admin'[u] # admin[u]) =>
              \E req \in AdminRoleUpdateRequests : handleUpdateAdminRole(req)]_vars

\* after a restart on the saved file a registered user, record unchanged, is
\* served a login
C30_Witness ==
    /\ running /\ restarts > 0 /\ saved # NoState
    /\ last.op = "login" /\ last.status = StatusOK
    /\ Nova \in DOMAIN users /\ users[Nova] = saved.Users[Nova]
    /\ sessions[last.body.SessionToken] = Nova

----------------------------------------------------------------------------
(* Rooms, addresses and refresh *)

\* C31: a joinRoom that succeeds on room R changes, of all the maps, only the
\* entry of the joining device in R's members: R's ID, name, transport, MTU,
\* subnet and keepalive, every other member of R, every other room, the users,
\* admin flags, sessions and device bindings are as before. And while the service
\* runs no step removes a room or a member of a room.
C31_JoinTouchesOneEntry ==
    [][/\ \A req \in JoinRoomRequests :
              (/\ req.SessionToken \in DOMAIN sessions /\ req.RoomID \in DOMAIN rooms
               /\ handleJoinRoom(req)) =>
                  /\ UNCHANGED <<users, admin, sessions, deviceBags>>
                  /\ DOMAIN rooms' = DOMAIN rooms
                  /\ \A id \in DOMAIN rooms \ {req.RoomID} : rooms'[id] = rooms[id]
                  /\ [rooms'[req.RoomID] EXCEPT !.Members = EmptyMap] =
                         [rooms[req.RoomID] EXCEPT !.Members = EmptyMap]
                  /\ \A d \in DOMAIN rooms'[req.RoomID].Members \ {req.DeviceID} :
                         /\ d \in DOMAIN rooms[req.RoomID].Members
                         /\ rooms'[req.RoomID].Members[d] = rooms[req.RoomID].Members[d]
       /\ (running /\ running') =>
              \A id \in DOMAIN rooms :
                  /\ id \in DOMAIN rooms'
                  /\ DOMAIN rooms[id].Members \subseteq DOMAIN rooms'[id].Members]_vars

\* a device has joined one of two rooms and the other room has no member
C31_Witness ==
    /\ last.op = "joinRoom" /\ last.status = StatusOK
    /\ Cardinality(DOMAIN rooms) = 2
    /\ \E a, b \in DOMAIN rooms :
           /\ DOMAIN rooms[a].Members # {}
           /\ last.body.OverlaySubnetReference = rooms[a].OverlaySubnet
           /\ DOMAIN rooms[b].Members = {}

\* C32: a save runs with the lock held from its start to its end: a handler starts
\* one only when it has just taken the free lock, so no second save starts while
\* one is under way; the temporary file and the state file change only in steps
\* of the handler that holds the lock (or the temporary file is cut short by a
\* crash during its write); what a rename puts in place is the snapshot of the
\* maps as they are at the rename; and every successful save holds all the users,
\* bindings, rooms and members the save before it held, so the state file never
\* goes back to an older snapshot.
C32_SavesInLockOrder ==
    /\ [](saving.pc # "idle" <=> mu = "locked")
    /\ [][/\ (saving' # saving /\ saving'.pc = "write") =>
                 saving.pc = "idle" /\ mu = "unlocked" /\ mu' = "locked"
          /\ (saving' # saving /\ saving'.pc = "rename") => saving.pc = "write"
          /\ tmp' # tmp => mu = "locked" /\ saving.pc \in {"write", "rename"}
          /\ disk' # disk =>
                 /\ mu = "locked" /\ saving.pc = "rename"
                 /\ tmp = Snapshot /\ disk' = Snapshot
          /\ (saved # NoState /\ saved' # saved) =>
                 /\ DOMAIN saved.Users \subseteq DOMAIN saved'.Users
                 /\ DOMAIN saved.DeviceBags \subseteq DOMAIN saved'.DeviceBags
                 /\ \A id \in DOMAIN saved.Rooms :
                        /\ id \in DOMAIN saved'.Rooms
                        /\ DOMAIN saved.Rooms[id].Members \subseteq
                               DOMAIN saved'.Rooms[id].Members]_vars

\* after a restart, a second save is between its write and its rename: the
\* temporary file holds the newer snapshot, the state file the older one
C32_Witness ==
    /\ running /\ restarts > 0 /\ mu = "locked" /\ saving.pc = "rename"
    /\ tmp = Snapshot /\ disk.kind = "json" /\ disk # tmp

\* C33: in every reachable state every session, every device binding and every
\* member of every room names a user that is in the user map.
C33_ReferentialIntegrity ==
    /\ \A t \in DOMAIN sessions : sessions[t] \in DOMAIN users
    /\ \A d \in DOMAIN deviceBags : deviceBags[d] \in DOMAIN users
    /\ \A id \in DOMAIN rooms :
           \A d \in DOMAIN rooms[id].Members : rooms[id].Members[d] \in DOMAIN users

\* after a restart on the saved file: a session opened by refresh, the loaded
\* device bindings and a loaded room member, all of stored users
C33_Witness ==
    /\ running /\ restarts > 0 /\ saved # NoState
    /\ sessions # EmptyMap
    /\ last.op = "refresh" /\ last.status = StatusOK
    /\ \E id \in DOMAIN rooms : DOMAIN rooms[id].Members # {}

\* C34: whenever the service runs, on no file, on a file without users or on a
\* file with users, the user map holds at least one user; so every register step
\* finds a user in the map.
C34_UserStoreNeverEmpty ==
    /\ [](running => DOMAIN users # {})
    /\ [][\A req \in RegisterRequests : handleRegister(req) => DOMAIN users # {}]_vars

\* a register was served on a file that held users and no demo user: gamer is
\* a registered user here, not the seeded one
C34_Witness ==
    /\ running /\ last.op = "register" /\ last.status = StatusOK
    /\ DOMAIN users = {Gamer, Nova}
    /\ users[Gamer].Device # DemoDevice

(* C35: within one room, two different member devices were never handed the
   same virtual IP by their most recent joinRoom.  handleJoinRoom derives
   the address from len(room.Members) before the insert, so a device that
   joins again is handed the address the next new device will get. *)
C35_DistinctVirtualIPs ==
    \A id \in DOMAIN rooms :
        \A a, b \in DOMAIN rooms[id].Members :
            (/\ a # b
             /\ <<id, a>> \in DOMAIN leases
             /\ <<id, b>> \in DOMAIN leases)
            => leases[<<id, a>>] # leases[<<id, b>>]

\* an address inside a /24 subnet: the first three octets agree
insideSubnet(ip, subnet) == /\ subnet[5] = 24
                            /\ \A i \in 1..3 : ip[i] = subnet[i]

(* C36: the virtual IP a successful joinRoom returns lies inside the overlay
   subnet of the joined room, and inside no other room's subnet.  The
   address is numbered from the member count and the subnet from the room
   count, so the first member of room-2 is handed 10.0.1.2, an address of
   room-1's subnet 10.0.1.0/24. *)
C36_VirtualIPInsideSubnet ==
    [][\A req \in JoinRoomRequests :
        (/\ req.SessionToken \in DOMAIN sessions
         /\ req.RoomID \in DOMAIN rooms
         /\ handleJoinRoom(req)) =>
            /\ insideSubnet(Outcome'.body.VirtualIP, rooms[req.RoomID].OverlaySubnet)
            /\ \A id \in DOMAIN rooms \ {req.RoomID} :
                   ~insideSubnet(Outcome'.body.VirtualIP, rooms[id].OverlaySubnet)]_vars

(* C37: a refresh with a bound device token answers 200 at once and adds
   exactly one entry to the session map, the returned token for the
   token's user; users, device bindings, rooms, the lock, the files and the
   save in progress are as before.  A refresh with an unknown device token
   answers 401 and changes nothing but the response. *)
C37_RefreshFrame ==
    [][\A req \in RefreshRequests : handleRefresh(req) =>
          /\ last'.op = "refresh"
          /\ UNCHANGED <<users, admin, deviceBags, rooms, handlers, files, environment>>
          /\ IF req.DeviceToken \in DOMAIN deviceBags
             THEN /\ last'.status = StatusOK
                  /\ last'.body.SessionToken \notin DOMAIN sessions
                  /\ DOMAIN sessions' = DOMAIN sessions \cup {last'.body.SessionToken}
                  /\ Cardinality(DOMAIN sessions') = Cardinality(DOMAIN sessions) + 1
                  /\ sessions'[last'.body.SessionToken] = deviceBags[req.DeviceToken]
                  /\ \A t \in DOMAIN sessions : sessions'[t] = sessions[t]
             ELSE /\ last'.status = StatusUnauthorized
                  /\ UNCHANGED <<sessions, nextToken>>]_vars

\* a refresh was answered with a second session while the service has a state
\* file whose last save holds a room
C37_Witness ==
    /\ running /\ persistPath # ""
    /\ last.op = "refresh" /\ last.status = StatusOK
    /\ last.body.SessionToken \in DOMAIN sessions
    /\ Cardinality(DOMAIN sessions) >= 2
    /\ saved # NoState /\ saved.Rooms = rooms /\ rooms # EmptyMap
    /\ saving = Idle /\ mu = "unlocked"

====
